---- MODULE Spec2Model ----
(***************************************************************************)
(* Model of backend/controllers/applicationController.ts: the four        *)
(* handlers getApplicationById, getApplications, postApplication and      *)
(* wipeAdmissionData over the Mongo collections they read and write.      *)
(*                                                                         *)
(* A client sends one request at a time: a handler runs when no response  *)
(* is outstanding (res.op = "idle") and leaves its request and response   *)
(* in req and res; Receive takes the response away.                       *)
(***************************************************************************)
EXTENDS Integers, Sequences, FiniteSets, TLC

\* ---------------------------------------------------------------- bounds
MaxLen == 2        \* longest addressed-committee list of a submission
MaxFill == 4       \* applications stored besides the one under study
MaxPage == 2       \* largest page number a list request asks for
MaxPosts == 2      \* submissions accepted in one behaviour of Spec

\* ------------------------------------------------------------- constants
\* utils/constants (imported at applicationController.ts:13)
MAIN_BOARD_ID == 1
ELECTION_COMMITTEE_ID == 2
\* two ordinary committees
OrdinaryIds == {7, 9}
CommitteeIds == {MAIN_BOARD_ID, ELECTION_COMMITTEE_ID} \cup OrdinaryIds

\* getApplications: const LIMIT = 4
LIMIT == 4

\* utils/enums StatusTypes (two of the eight values are enough to tell
\* entries apart)
PENDING == "Pending"
ACCEPTED == "Accepted"
StatusValues == {PENDING, ACCEPTED}

\* utils/enums SortTypes
SortTypes == {"name_asc", "name_desc", "date_asc", "date_desc"}

VARIABLES
    applications,     \* Applications collection, in insertion order
    statuses,         \* Statuses collection, in insertion order
    users,            \* Users collection: set of user documents
    committees,       \* Committees collection, in _id order
    admissionPeriods, \* AdmissionPeriods collection
    nextId,           \* next ObjectId to hand out (ObjectIds grow with time)
    posts,            \* submissions handled so far
    req,              \* the request last handled
    res               \* the response to it, "idle" when none is outstanding

vars == <<applications, statuses, users, committees, admissionPeriods,
          nextId, posts, req, res>>
store == <<applications, statuses, users, committees, admissionPeriods>>

\* ------------------------------------------------------- array helpers
Range(s) == {s[i] : i \in 1..Len(s)}

\* Array.prototype.includes
Includes(s, x) == \E i \in 1..Len(s) : s[i] = x

\* Array.prototype.splice(i, 1) with a 0-based i: nothing happens past the end
Splice(s, i) ==
    IF i + 1 > Len(s) THEN s
    ELSE SubSeq(s, 1, i) \o SubSeq(s, i + 2, Len(s))

\* Array.prototype.filter, keeping the elements whose index is in keep
RECURSIVE KeepIndices(_, _, _)
KeepIndices(s, keep, i) ==
    IF i > Len(s) THEN <<>>
    ELSE (IF i \in keep THEN <<s[i]>> ELSE <<>>) \o KeepIndices(s, keep, i + 1)

SeqsUpTo(S, n) == UNION {[1..k -> S] : k \in 0..n}

Min(a, b) == IF a < b THEN a ELSE b

\* ------------------------------------------------------------ responses
Idle == [op |-> "idle"]
NoRequest == [op |-> "none"]

\* next(error) with a CustomError, or res.status(code).json({message})
ErrorResponse(op, code, message) ==
    [op |-> op, status |-> code, message |-> message]

\* ------------------------------------------------- membership resolver
\* getUserCommitteeIdsByUserId: committeeIds starts as [] and is replaced
\* only when findById yields a user; a rejected lookup throws 500.
UserDocs(userId) == {u \in users : u._id = userId}

getUserCommitteeIdsByUserId(userId, lookupFails) ==
    IF lookupFails
    THEN [ok |-> FALSE, status |-> 500,
          message |-> "Something went wrong when trying to find user"]
    ELSE IF UserDocs(userId) # {}
    THEN LET user == CHOOSE u \in UserDocs(userId) : TRUE
         IN  [ok |-> TRUE,
              committeeIds |->
                  [i \in 1..Len(user.committees) |-> user.committees[i].committee]]
    ELSE [ok |-> TRUE, committeeIds |-> <<>>]

\* --------------------------------------------------- mongoose populate
\* populate() of an array of references keeps the order of the array and
\* leaves out the references that resolve to no document.
\* (stats, apps: the Statuses and Applications collections that are read)
StatusDoc(stats, id) == CHOOSE i \in 1..Len(stats) : stats[i]._id = id
CommitteeExists(id) == \E i \in 1..Len(committees) : committees[i]._id = id
StatusExists(stats, id) == \E i \in 1..Len(stats) : stats[i]._id = id

PopulateCommittees(ids) ==
    LET kept == KeepIndices(ids, {i \in 1..Len(ids) : CommitteeExists(ids[i])}, 1)
    IN  [i \in 1..Len(kept) |-> [_id |-> kept[i]]]

PopulateStatuses(stats, ids) ==
    LET kept == KeepIndices(ids, {i \in 1..Len(ids) : StatusExists(stats, ids[i])}, 1)
    IN  [i \in 1..Len(kept) |->
            LET s == stats[StatusDoc(stats, kept[i])]
            IN  [_id |-> s._id, committee |-> [_id |-> s.committee],
                 value |-> s.value]]

FindApplicationIn(apps, id) == {i \in 1..Len(apps) : apps[i]._id = id}
FindApplication(id) == FindApplicationIn(applications, id)

PopulatedApplication(stats, a) ==
    [_id |-> a._id, name |-> a.name, submitted_date |-> a.submitted_date,
     committees |-> PopulateCommittees(a.committees),
     statuses |-> PopulateStatuses(stats, a.statuses)]

\* ---------------------------------------------------- getApplicationById
\* lines 77-84: the first Main Board entry is spliced out of both arrays,
\* then the loop breaks
RECURSIVE MainBoardLoop(_, _, _)
MainBoardLoop(coms, stats, i) ==
    IF i >= Len(coms) THEN [committees |-> coms, statuses |-> stats]
    ELSE IF coms[i + 1]._id = MAIN_BOARD_ID
    THEN [committees |-> Splice(coms, i), statuses |-> Splice(stats, i)]
    ELSE MainBoardLoop(coms, stats, i + 1)

\* lines 94-106: the ordinary caller's loop; id is the 0-based loop index
RECURSIVE OrdinaryLoop(_, _, _, _, _)
OrdinaryLoop(coms, stats, id, authorized, userCommitteeIds) ==
    IF id >= Len(coms)
    THEN [committees |-> coms, statuses |-> stats, authorized |-> authorized]
    ELSE IF Includes(userCommitteeIds, coms[id + 1]._id)
    THEN OrdinaryLoop(coms, stats, id + 1, TRUE, userCommitteeIds)
    ELSE IF coms[id + 1]._id = MAIN_BOARD_ID
    THEN OrdinaryLoop(Splice(coms, id), Splice(stats, id), id, authorized,
                      userCommitteeIds)
    ELSE OrdinaryLoop(coms, stats, id + 1, authorized, userCommitteeIds)

GetByIdOk(application) ==
    [op |-> "getApplicationById", status |-> 200, application |-> application]

getApplicationByIdOn(apps, stats, r) ==
    LET op == "getApplicationById"
        resolved == getUserCommitteeIdsByUserId(r.ntnuiNo, r.fault = "userLookup")
    IN
    IF r.ntnuiNo = 0 THEN ErrorResponse(op, 401, "Unauthorized")
    ELSE IF ~resolved.ok THEN ErrorResponse(op, resolved.status, resolved.message)
    ELSE IF r.fault = "applicationLookup" \/ FindApplicationIn(apps, r.application_id) = {}
    THEN ErrorResponse(op, 404, "Could not find application")
    ELSE
    LET userCommitteeIds == resolved.committeeIds
        application ==
            PopulatedApplication(stats,
                apps[CHOOSE i \in FindApplicationIn(apps, r.application_id) : TRUE])
    IN
    IF Includes(userCommitteeIds, ELECTION_COMMITTEE_ID)
    THEN GetByIdOk(application)
    ELSE IF Includes(userCommitteeIds, MAIN_BOARD_ID)
    THEN LET cut == MainBoardLoop(application.committees, application.statuses, 0)
         IN  IF Len(cut.committees) > 0
             THEN GetByIdOk([application EXCEPT !.committees = cut.committees,
                                                !.statuses = cut.statuses])
             ELSE ErrorResponse(op, 403, "You do not have access to this application")
    ELSE LET cut == OrdinaryLoop(application.committees, application.statuses, 0,
                                 FALSE, userCommitteeIds)
         IN  IF cut.authorized
             THEN GetByIdOk([application EXCEPT !.committees = cut.committees,
                                                !.statuses = cut.statuses])
             ELSE ErrorResponse(op, 403, "You do not have access to this application")

getApplicationByIdResponse(r) == getApplicationByIdOn(applications, statuses, r)

\* -------------------------------------------------------- getApplications
\* Strings that the pipeline looks into are sequences of characters.
Code(c) == CASE c = "A" -> 65 [] c = "B" -> 66 [] c = "a" -> 97 [] c = "b" -> 98
Lower(c) == CASE c = "A" -> "a" [] c = "B" -> "b" [] OTHER -> c
LowerAll(str) == [i \in 1..Len(str) |-> Lower(str[i])]

\* { $regex: name, $options: 'i' } for a pattern of plain letters: the
\* pattern occurs somewhere in the name, letter case ignored
RegexMatchI(str, pattern) ==
    \E k \in 0..(Len(str) - Len(pattern)) :
        SubSeq(LowerAll(str), k + 1, k + Len(pattern)) = LowerAll(pattern)

\* parseInt(id, 10) on the numerals the validators let through
ParseInt10(numeral) ==
    CASE numeral = "1" -> 1 [] numeral = "2" -> 2
      [] numeral = "7" -> 7 [] numeral = "9" -> 9

\* utils/applicationQueryMiddleware getSortTypeValue
getSortTypeValue(sortparam) ==
    CASE sortparam = "name_asc" -> [field |-> "name", direction |-> 1]
      [] sortparam = "name_desc" -> [field |-> "name", direction |-> -1]
      [] sortparam = "date_asc" -> [field |-> "submitted_date", direction |-> 1]
      [] sortparam = "date_desc" -> [field |-> "submitted_date", direction |-> -1]
      [] OTHER -> [field |-> "", direction |-> 0]

\* faulty variant: the Main Board branch of the scope stage left out
ScopeMatchesNoMainBoardBranch(doc, userCommitteeIds) ==
    IF Includes(userCommitteeIds, ELECTION_COMMITTEE_ID) THEN TRUE
    ELSE \E i \in 1..Len(doc.committees) :
             Includes(userCommitteeIds, doc.committees[i])

\* lines 151-174: the scope stage
ScopeMatches(doc, userCommitteeIds) ==
    IF Includes(userCommitteeIds, ELECTION_COMMITTEE_ID) THEN TRUE
    ELSE IF Includes(userCommitteeIds, MAIN_BOARD_ID)
    THEN doc.committees # <<MAIN_BOARD_ID>>                       \* $ne
    ELSE \E i \in 1..Len(doc.committees) :                        \* $in
             Includes(userCommitteeIds, doc.committees[i])

\* lines 175-184: the name stage, pushed only for a non-empty name
NameMatches(doc, name) == name = <<>> \/ RegexMatchI(doc.name, name)

\* $lookup with an array localField: the documents of the foreign
\* collection whose _id occurs in the array, each once, in the order of the
\* foreign collection
Lookup(collection, ids) ==
    KeepIndices(collection,
                {i \in 1..Len(collection) : Includes(ids, collection[i]._id)}, 1)

\* lines 186-195
populateStatus(stats, doc) == [doc EXCEPT !.statuses = Lookup(stats, doc.statuses)]

\* lines 197-206
CommitteeIdsOf(committee) == [i \in 1..Len(committee) |-> ParseInt10(committee[i])]

\* faulty variant: status and committee tested independently of each other
FilterMatchesIndependently(doc, status, committee) ==
    LET committeeIds == CommitteeIdsOf(committee)
    IN  /\ status # "" =>
               \E i \in 1..Len(doc.statuses) : doc.statuses[i].value = status
        /\ committee # <<>> =>
               \E i \in 1..Len(doc.committees) :
                   Includes(committeeIds, doc.committees[i])

\* lines 207-244: the status / committee filter stage; doc.statuses are
\* status documents here and doc.committees still ids
FilterMatches(doc, status, committee) ==
    LET committeeIds == CommitteeIdsOf(committee)
    IN  IF status # "" /\ committee # <<>>
        THEN \E i \in 1..Len(doc.statuses) :                      \* $elemMatch
                 /\ Includes(committeeIds, doc.statuses[i].committee)
                 /\ doc.statuses[i].value = status
        ELSE IF status # ""
        THEN \E i \in 1..Len(doc.statuses) : doc.statuses[i].value = status
        ELSE IF committee # <<>>
        THEN \E i \in 1..Len(doc.committees) :
                 Includes(committeeIds, doc.committees[i])
        ELSE TRUE

\* lines 246-255
populateCommittees(doc) ==
    [doc EXCEPT !.committees = Lookup(committees, doc.committees)]

\* string and number comparison of $sort
RECURSIVE StringLess(_, _)
StringLess(a, b) ==
    IF b = <<>> THEN FALSE
    ELSE IF a = <<>> THEN TRUE
    ELSE IF Code(Head(a)) # Code(Head(b)) THEN Code(Head(a)) < Code(Head(b))
    ELSE StringLess(Tail(a), Tail(b))

SortsBefore(a, b, sortValue) ==
    LET less(x, y) == IF sortValue.field = "name"
                      THEN StringLess(x.name, y.name)
                      ELSE x.submitted_date < y.submitted_date
    IN  IF sortValue.direction = 1 THEN less(a, b) ELSE less(b, a)

\* lines 257-261: $sort, equal keys staying in storage order
RECURSIVE InsertSorted(_, _, _)
InsertSorted(sorted, doc, sortValue) ==
    IF sorted = <<>> THEN <<doc>>
    ELSE IF SortsBefore(doc, Head(sorted), sortValue)
    THEN <<doc>> \o sorted
    ELSE <<Head(sorted)>> \o InsertSorted(Tail(sorted), doc, sortValue)

RECURSIVE SortDocs(_, _)
SortDocs(docs, sortValue) ==
    IF docs = <<>> THEN <<>>
    ELSE InsertSorted(SortDocs(SubSeq(docs, 1, Len(docs) - 1), sortValue),
                      docs[Len(docs)], sortValue)

SortStage(docs, sortparam) ==
    IF sortparam = "" THEN docs ELSE SortDocs(docs, getSortTypeValue(sortparam))

\* $ceil of $divide
CeilDiv(a, b) == (a + b - 1) \div b

\* the documents that reach the pagination stage, in pipeline order
Pipeline(apps, stats, r, userCommitteeIds) ==
    LET scoped == KeepIndices(apps,
                      {i \in 1..Len(apps) : ScopeMatches(apps[i], userCommitteeIds)}, 1)
        named == KeepIndices(scoped,
                      {i \in 1..Len(scoped) : NameMatches(scoped[i], r.name)}, 1)
        joined == [i \in 1..Len(named) |-> populateStatus(stats, named[i])]
        filtered == KeepIndices(joined,
                      {i \in 1..Len(joined) :
                           FilterMatches(joined[i], r.status, r.committee)}, 1)
        withCommittees == [i \in 1..Len(filtered) |-> populateCommittees(filtered[i])]
    IN  SortStage(withCommittees, r.sort)

\* lines 263-280: $facet with $skip, $limit and $count
StartIndex(page) == IF page # 0 THEN (page - 1) * LIMIT ELSE 0

Facet(docs, page) ==
    [applications |-> SubSeq(docs, StartIndex(page) + 1,
                             Min(StartIndex(page) + LIMIT, Len(docs))),
     pagination |->
         IF docs = <<>> THEN <<>>
         ELSE <<[total |-> Len(docs),
                 currentPage |-> IF page # 0 THEN page ELSE 0,
                 numberOfPages |-> CeilDiv(Len(docs), LIMIT)]>>]

\* lines 282-310: $project
ProjectApplication(doc) ==
    [_id |-> doc._id, name |-> doc.name, submitted_date |-> doc.submitted_date,
     committees |-> [i \in 1..Len(doc.committees) |-> [_id |-> doc.committees[i]._id]],
     statuses |-> [i \in 1..Len(doc.statuses) |->
                       [committee |-> doc.statuses[i].committee]]]

Projection(facet) ==
    [applications |-> [i \in 1..Len(facet.applications) |->
                           ProjectApplication(facet.applications[i])],
     pagination |->
         IF facet.pagination = <<>> THEN [empty |-> TRUE]
         ELSE [currentPage |-> facet.pagination[1].currentPage,
               numberOfPages |-> facet.pagination[1].numberOfPages]]

\* faulty variant: the fixed object echoes page 0
EmptyFallbackPageZero(appRes) ==
    IF Len(appRes.applications) # 0 THEN appRes
    ELSE [applications |-> <<>>,
          pagination |-> [currentPage |-> 0, numberOfPages |-> 0]]

\* lines 322-326: an empty page is answered with a fixed object
EmptyFallback(appRes) ==
    IF Len(appRes.applications) # 0 THEN appRes
    ELSE [applications |-> <<>>,
          pagination |-> [currentPage |-> 1, numberOfPages |-> 0]]

\* lines 331-343: both arrays are filtered on Main Board separately
HideMainBoard(app) ==
    [app EXCEPT
        !.committees = KeepIndices(app.committees,
            {i \in 1..Len(app.committees) : app.committees[i]._id # MAIN_BOARD_ID}, 1),
        !.statuses = KeepIndices(app.statuses,
            {i \in 1..Len(app.statuses) : app.statuses[i].committee # MAIN_BOARD_ID}, 1)]

Redact(apps, userCommitteeIds) ==
    IF ~Includes(userCommitteeIds, ELECTION_COMMITTEE_ID)
    THEN [i \in 1..Len(apps) |-> HideMainBoard(apps[i])]
    ELSE apps

getApplicationsOn(apps, stats, r) ==
    LET op == "getApplications"
        resolved == getUserCommitteeIdsByUserId(r.ntnuiNo, r.fault = "userLookup")
    IN
    IF r.ntnuiNo = 0 THEN ErrorResponse(op, 401, "Unauthorized")
    ELSE IF ~resolved.ok THEN ErrorResponse(op, resolved.status, resolved.message)
    ELSE IF r.fault = "validation" THEN ErrorResponse(op, 400, "validation errors")
    ELSE IF r.fault = "aggregate"
    THEN ErrorResponse(op, 500, "Something went wrong retrieving applications")
    ELSE
    LET userCommitteeIds == resolved.committeeIds
        applicationRes ==
            EmptyFallback(
                Projection(Facet(Pipeline(apps, stats, r, userCommitteeIds), r.page)))
    IN  [op |-> op, status |-> 200,
         applications |-> Redact(applicationRes.applications, userCommitteeIds),
         pagination |-> applicationRes.pagination]

getApplicationsResponse(r) == getApplicationsOn(applications, statuses, r)

\* -------------------------------------------------------- postApplication
\* utils/isAdmissionPeriodActive: some stored period is running now
isAdmissionPeriodActive == \E p \in admissionPeriods : p.active

\* faulty variant: the closed flag is not looked at
closedCommitteesIgnored(body) == {}

\* lines 361-364: findOne({_id: {$in: committees}, accepts_admissions: false})
closedCommittees(body) ==
    {i \in 1..Len(committees) :
        /\ Includes(body.committees, committees[i]._id)
        /\ ~committees[i].accepts_admissions}

\* lines 371-374: the objects handed to insertMany, one per addressed
\* committee in the order of the list; the key that carries Pending is
\* `status`
StatusObjects(body) ==
    [i \in 1..Len(body.committees) |->
        [committee |-> body.committees[i], status |-> PENDING]]

\* models/Status: the document the Status schema makes of such an object.
\* The schema has the paths committee and value; value starts as Pending.
StatusDocument(object, id) ==
    [_id |-> id, committee |-> object.committee, value |-> PENDING]

\* lines 376-378: insertMany, ordered: the documents in the order of the
\* objects, with consecutive ObjectIds
NewStatuses(body, firstId) ==
    LET objects == StatusObjects(body)
    IN  [i \in 1..Len(objects) |-> StatusDocument(objects[i], firstId + i - 1)]

\* faulty variant: the status ids are stored in the opposite order
NewApplicationReversed(body, inserted, id) ==
    [_id |-> id, name |-> body.name, submitted_date |-> id,
     committees |-> body.committees,
     statuses |-> [i \in 1..Len(inserted) |-> inserted[Len(inserted) + 1 - i]._id]]

\* lines 383-385: the application document, created after the statuses
NewApplication(body, inserted, id) ==
    [_id |-> id, name |-> body.name, submitted_date |-> id,
     committees |-> body.committees,
     statuses |-> [i \in 1..Len(inserted) |-> inserted[i]._id]]

\* The store after the handler, and its response.  r.fault names the store
\* operation that fails: "insertStatuses" (after r.partial documents went
\* in), "validation" or "save" of the application, or "none".
postApplicationOutcome(r) ==
    LET op == "postApplication"
        same == [applications |-> applications, statuses |-> statuses,
                 nextId |-> nextId]
        inserted == NewStatuses(r.body, nextId)
        application == NewApplication(r.body, inserted, nextId + Len(inserted))
    IN
    IF ~isAdmissionPeriodActive
    THEN [store |-> same,
          response |-> ErrorResponse(op, 403, "Admission period is not active")]
    ELSE IF closedCommittees(r.body) # {}
    THEN [store |-> same,
          response |-> ErrorResponse(op, 400,
                           "A committee the application was sent to is closed")]
    ELSE IF r.fault = "insertStatuses"
    THEN [store |-> [same EXCEPT
                        !.statuses = statuses \o SubSeq(inserted, 1, r.partial),
                        !.nextId = nextId + Len(inserted)],
          response |-> ErrorResponse(op, 500, "Something went wrong creating statuses")]
    ELSE IF r.fault = "validation"
    THEN [store |-> [same EXCEPT !.statuses = statuses \o inserted,
                                 !.nextId = nextId + Len(inserted) + 1],
          response |-> ErrorResponse(op, 400, "ValidationError")]
    ELSE IF r.fault = "save"
    THEN [store |-> [same EXCEPT !.statuses = statuses \o inserted,
                                 !.nextId = nextId + Len(inserted) + 1],
          response |-> ErrorResponse(op, 500, "Unable to save application")]
    ELSE [store |-> [applications |-> Append(applications, application),
                     statuses |-> statuses \o inserted,
                     nextId |-> nextId + Len(inserted) + 1],
          response |-> [op |-> op, status |-> 200, application |-> application]]

\* ------------------------------------------------------ wipeAdmissionData
\* faulty variant: deleteMany on Users without the filter that spares the caller
wipeAdmissionDataEveryUser(r) ==
    LET op == "wipeAdmissionData"
        resolved == getUserCommitteeIdsByUserId(r.ntnuiNo, r.fault = "userLookup")
        same == [applications |-> applications, statuses |-> statuses,
                 users |-> users, admissionPeriods |-> admissionPeriods,
                 committees |-> committees]
    IN
    IF r.ntnuiNo = 0
    THEN [store |-> same, response |-> ErrorResponse(op, 401, "Unauthorized")]
    ELSE IF ~resolved.ok
    THEN [store |-> same,
          response |-> ErrorResponse(op, resolved.status, resolved.message)]
    ELSE IF ~Includes(resolved.committeeIds, MAIN_BOARD_ID)
    THEN [store |-> same,
          response |-> ErrorResponse(op, 403, "You do not have access to this resource")]
    ELSE [store |->
              [applications |-> <<>>, statuses |-> <<>>, users |-> {},
               admissionPeriods |-> {},
               committees |->
                   [i \in 1..Len(committees) |->
                       [committees[i] EXCEPT !.accepts_admissions = FALSE]]],
          response |-> [op |-> op, status |-> 200,
                        message |-> "Admission data successfully wiped"]]

\* lines 415-419: five store operations in this order; r.failsAt is the
\* first one that rejects (0: none does), and the ones before it have run
wipeAdmissionDataOutcome(r) ==
    LET op == "wipeAdmissionData"
        resolved == getUserCommitteeIdsByUserId(r.ntnuiNo, r.fault = "userLookup")
        same == [applications |-> applications, statuses |-> statuses,
                 users |-> users, admissionPeriods |-> admissionPeriods,
                 committees |-> committees]
        done(step) == r.failsAt = 0 \/ step < r.failsAt
    IN
    IF r.ntnuiNo = 0
    THEN [store |-> same, response |-> ErrorResponse(op, 401, "Unauthorized")]
    ELSE IF ~resolved.ok
    THEN [store |-> same,
          response |-> ErrorResponse(op, resolved.status, resolved.message)]
    ELSE IF ~Includes(resolved.committeeIds, MAIN_BOARD_ID)
    THEN [store |-> same,
          response |-> ErrorResponse(op, 403, "You do not have access to this resource")]
    ELSE [store |->
              [applications |-> IF done(1) THEN <<>> ELSE applications,
               statuses |-> IF done(2) THEN <<>> ELSE statuses,
               users |-> IF done(3) THEN {u \in users : u._id = r.ntnuiNo} ELSE users,
               admissionPeriods |-> IF done(4) THEN {} ELSE admissionPeriods,
               committees |->
                   IF done(5)
                   THEN [i \in 1..Len(committees) |->
                            [committees[i] EXCEPT !.accepts_admissions = FALSE]]
                   ELSE committees],
          response |->
              IF r.failsAt = 0
              THEN [op |-> op, status |-> 200,
                    message |-> "Admission data successfully wiped"]
              ELSE ErrorResponse(op, 500, "store operation failed")]

\* ---------------------------------------------------------------- inputs
\* The Users collection: members of Election Committee, of Main Board, of
\* ordinary committees, of several, and of none.  No record has _id 8.
Member(ids) == [i \in 1..Len(ids) |-> [committee |-> ids[i]]]
UserTable ==
    {[_id |-> 1, committees |-> Member(<<ELECTION_COMMITTEE_ID>>)],
     [_id |-> 2, committees |-> Member(<<MAIN_BOARD_ID>>)],
     [_id |-> 3, committees |-> Member(<<7>>)],
     [_id |-> 4, committees |-> Member(<<MAIN_BOARD_ID, ELECTION_COMMITTEE_ID>>)],
     [_id |-> 5, committees |-> Member(<<7, MAIN_BOARD_ID>>)],
     [_id |-> 6, committees |-> Member(<<>>)],
     [_id |-> 7, committees |-> Member(<<9, 7>>)]}
UnknownUser == Cardinality(UserTable) + 1
\* req.ntnuiNo of a request that got past authentication
NtnuiNos == {u._id : u \in UserTable} \cup {UnknownUser}

\* committees an application is addressed to
AddressIds == {MAIN_BOARD_ID} \cup OrdinaryIds
AllCommittees(closed) ==
    <<[_id |-> MAIN_BOARD_ID, accepts_admissions |-> MAIN_BOARD_ID \notin closed],
      [_id |-> ELECTION_COMMITTEE_ID, accepts_admissions |-> TRUE],
      [_id |-> 7, accepts_admissions |-> 7 \notin closed],
      [_id |-> 9, accepts_admissions |-> 9 \notin closed]>>

Names == {<<"A">>, <<"a", "B">>}

\* a stored application and its statuses, as a submission followed by
\* status updates leaves them: statuses[i] belongs to committees[i]
StoredPair(name, coms, values, firstId) ==
    [application |->
         [_id |-> firstId + Len(coms), name |-> name,
          submitted_date |-> firstId + Len(coms), committees |-> coms,
          statuses |-> [i \in 1..Len(coms) |-> firstId + i - 1]],
     statuses |->
         [i \in 1..Len(coms) |->
             [_id |-> firstId + i - 1, committee |-> coms[i], value |-> values[i]]]]

\* status values of a list of n entries: all Pending but entry `accepted`
ValuesWith(n, accepted) ==
    [i \in 1..n |-> IF i = accepted THEN ACCEPTED ELSE PENDING]

FillerTable ==
    <<[name |-> <<"a", "b">>, committees |-> <<7>>, values |-> <<ACCEPTED>>],
      [name |-> <<"B">>, committees |-> <<9, 7>>, values |-> <<ACCEPTED, PENDING>>],
      [name |-> <<"A", "b">>, committees |-> <<MAIN_BOARD_ID>>, values |-> <<PENDING>>],
      [name |-> <<"b">>, committees |-> <<7, MAIN_BOARD_ID>>,
       values |-> <<PENDING, ACCEPTED>>]>>
Filler(k) == FillerTable[((k - 1) % Len(FillerTable)) + 1]

\* the store holding `first` and then MaxFill more applications
RECURSIVE StoreOf(_, _, _)
StoreOf(first, k, firstId) ==
    LET shape == IF k = 0 THEN first ELSE Filler(k)
        pair == StoredPair(shape.name, shape.committees, shape.values, firstId)
        rest == IF k = MaxFill
                THEN [applications |-> <<>>, statuses |-> <<>>, nextId |-> pair.application._id + 1]
                ELSE StoreOf(first, k + 1, pair.application._id + 1)
    IN  [applications |-> <<pair.application>> \o rest.applications,
         statuses |-> pair.statuses \o rest.statuses,
         nextId |-> rest.nextId]

Shapes ==
    {[name |-> <<"A">>, committees |-> coms, values |-> ValuesWith(Len(coms), accepted)] :
        <<coms, accepted>> \in
            {ca \in SeqsUpTo(AddressIds, MaxLen) \X (0..MaxLen) : ca[2] <= Len(ca[1])}}

GetRequests ==
    [op : {"getApplicationById"}, ntnuiNo : NtnuiNos,
     application_id : {applications[i]._id : i \in 1..Len(applications)} \cup {0},
     fault : {"none"}]
    \cup
    [op : {"getApplicationById"}, ntnuiNo : {0, 1}, application_id : {0},
     fault : {"none", "userLookup", "applicationLookup"}]

ListRequests ==
    [op : {"getApplications"}, ntnuiNo : NtnuiNos, page : 0..MaxPage,
     name : {<<>>, <<"a">>}, committee : {<<>>, <<"7">>, <<"1">>, <<"7", "9">>},
     status : {"", ACCEPTED}, sort : {""} \cup SortTypes, fault : {"none"}]
    \cup
    [op : {"getApplications"}, ntnuiNo : {0, 1}, page : {0}, name : {<<>>},
     committee : {<<>>}, status : {""}, sort : {""},
     fault : {"none", "userLookup", "validation", "aggregate"}]

Submissions ==
    {<<>>, <<7>>, <<9, 7>>, <<7, MAIN_BOARD_ID>>, <<MAIN_BOARD_ID, MAIN_BOARD_ID>>}

\* every submission with every store operation succeeding, and one
\* submission with each store operation failing
PostRequests ==
    [op : {"postApplication"}, body : [name : Names, committees : Submissions],
     fault : {"none"}, partial : {0}]
    \cup
    [op : {"postApplication"}, body : [name : {<<"A">>}, committees : {<<9, 7>>}],
     fault : {"insertStatuses"}, partial : {0, 1}]
    \cup
    [op : {"postApplication"}, body : [name : {<<"A">>}, committees : {<<9, 7>>}],
     fault : {"validation", "save"}, partial : {0}]

\* every caller with every store operation succeeding, and a Main Board
\* caller with each of the five failing
WipeRequests ==
    [op : {"wipeAdmissionData"}, ntnuiNo : NtnuiNos \cup {0}, fault : {"none"},
     failsAt : {0}]
    \cup
    [op : {"wipeAdmissionData"}, ntnuiNo : {2}, fault : {"none"}, failsAt : 1..5]
    \cup
    [op : {"wipeAdmissionData"}, ntnuiNo : {1, 2}, fault : {"userLookup"},
     failsAt : {0}]

\* ----------------------------------------------------------------- actions
getApplicationById ==
    /\ res = Idle
    /\ \E r \in GetRequests :
        /\ req' = r
        /\ res' = getApplicationByIdResponse(r)
    /\ UNCHANGED <<store, nextId, posts>>

getApplications ==
    /\ res = Idle
    /\ \E r \in ListRequests :
        /\ req' = r
        /\ res' = getApplicationsResponse(r)
    /\ UNCHANGED <<store, nextId, posts>>

postApplication ==
    /\ res = Idle
    /\ posts < MaxPosts
    /\ \E r \in PostRequests :
        LET out == postApplicationOutcome(r)
        IN  /\ req' = r
            /\ res' = out.response
            /\ applications' = out.store.applications
            /\ statuses' = out.store.statuses
            /\ nextId' = out.store.nextId
            /\ posts' = IF out.store.nextId # nextId THEN posts + 1 ELSE posts
    /\ UNCHANGED <<users, committees, admissionPeriods>>

wipeAdmissionData ==
    /\ res = Idle
    /\ \E r \in WipeRequests :
        LET out == wipeAdmissionDataOutcome(r)
        IN  /\ req' = r
            /\ res' = out.response
            /\ applications' = out.store.applications
            /\ statuses' = out.store.statuses
            /\ users' = out.store.users
            /\ admissionPeriods' = out.store.admissionPeriods
            /\ committees' = out.store.committees
    /\ UNCHANGED <<nextId, posts>>

\* the client takes the response; the next request can be sent
Receive ==
    /\ res # Idle
    /\ res' = Idle
    /\ req' = NoRequest
    /\ UNCHANGED <<store, nextId, posts>>

\* ---------------------------------------------------------- specifications
\* Submissions and wipes from an empty store.
Init ==
    /\ applications = <<>>
    /\ statuses = <<>>
    /\ users = UserTable
    /\ \E closed \in {{}, {MAIN_BOARD_ID}, {9}} : committees = AllCommittees(closed)
    /\ admissionPeriods \in {{}, {[_id |-> 1, active |-> TRUE]},
                             {[_id |-> 1, active |-> FALSE]}}
    /\ nextId = 1
    /\ posts = 0
    /\ req = NoRequest
    /\ res = Idle

Next == postApplication \/ wipeAdmissionData \/ Receive

Spec == Init /\ [][Next]_vars

\* Reads of a store that holds one application of any shape and MaxFill more.
InitQuery ==
    /\ \E first \in Shapes :
        LET st == StoreOf(first, 0, 1)
        IN  /\ applications = st.applications
            /\ statuses = st.statuses
            /\ nextId = st.nextId
    /\ users = UserTable
    /\ committees = AllCommittees({})
    /\ admissionPeriods = {[_id |-> 1, active |-> TRUE]}
    /\ posts = 0
    /\ req = NoRequest
    /\ res = Idle

NextQuery == getApplicationById \/ getApplications \/ Receive

SpecQuery == InitQuery /\ [][NextQuery]_vars

\* ============================================================ properties
\* the caller's committee-id set U, read from the Users collection
CallerSet ==
    {u.committees[i].committee : <<u, i>> \in
        {ui \in users \X (1..4) : ui[1]._id = req.ntnuiNo /\ ui[2] <= Len(ui[1].committees)}}

AddressedSet(a) == Range(a.committees)

\* get-by-id reached the visibility decision for a stored application
GetDecided ==
    /\ req.op = "getApplicationById"
    /\ req.ntnuiNo # 0
    /\ req.fault = "none"
    /\ FindApplication(req.application_id) # {}

GetTarget == applications[CHOOSE i \in FindApplication(req.application_id) : TRUE]

\* the list endpoint ran its pipeline
ListDecided ==
    /\ req.op = "getApplications"
    /\ req.ntnuiNo # 0
    /\ req.fault = "none"

Unfiltered == req.name = <<>> /\ req.committee = <<>> /\ req.status = ""

ListedIds == {res.applications[i]._id : i \in 1..Len(res.applications)}

\* ---------------------------------------------------------------- C1
\* C1 as claimed: the caller sees A iff U contains Election Committee, or U
\* contains Main Board and A's list is not exactly [Main Board], or U and
\* A's committees have a common element.
ClaimedSees(U, a) ==
    \/ ELECTION_COMMITTEE_ID \in U
    \/ (MAIN_BOARD_ID \in U /\ a.committees # <<MAIN_BOARD_ID>>)
    \/ U \cap AddressedSet(a) # {}

C1_AsClaimed ==
    /\ GetDecided => (res.status = 200 <=> ClaimedSees(CallerSet, GetTarget))
    /\ ListDecided /\ Unfiltered /\ req.sort = "" /\ req.page <= 1 =>
          (applications[1]._id \in ListedIds
              <=> ClaimedSees(CallerSet, applications[1]))

\* C1 (amended): get-by-id answers 200 iff U contains Election Committee,
\* or (no Election Committee, Main Board in U, and A's list is neither empty
\* nor exactly [Main Board]), or (neither in U, and U meets A's committees);
\* A passes the scope stage of the list endpoint iff the same holds with an
\* empty list let through for a Main Board caller.
SeesById(U, a) ==
    \/ ELECTION_COMMITTEE_ID \in U
    \/ /\ ELECTION_COMMITTEE_ID \notin U
       /\ MAIN_BOARD_ID \in U
       /\ a.committees \notin {<<>>, <<MAIN_BOARD_ID>>}
    \/ /\ ELECTION_COMMITTEE_ID \notin U
       /\ MAIN_BOARD_ID \notin U
       /\ U \cap AddressedSet(a) # {}

InScope(U, a) ==
    \/ ELECTION_COMMITTEE_ID \in U
    \/ /\ ELECTION_COMMITTEE_ID \notin U
       /\ MAIN_BOARD_ID \in U
       /\ a.committees # <<MAIN_BOARD_ID>>
    \/ /\ ELECTION_COMMITTEE_ID \notin U
       /\ MAIN_BOARD_ID \notin U
       /\ U \cap AddressedSet(a) # {}

C1_Visibility ==
    /\ GetDecided => (res.status = 200 <=> SeesById(CallerSet, GetTarget))
    /\ GetDecided /\ res.status # 200 => res.status = 403
    /\ ListDecided /\ Unfiltered /\ req.sort = "" /\ req.page <= 1 =>
          /\ res.status = 200
          /\ applications[1]._id \in ListedIds <=> InScope(CallerSet, applications[1])
    /\ ListDecided =>
          \A i \in 1..Len(applications) :
              applications[i]._id \in ListedIds => InScope(CallerSet, applications[i])
    /\ ListDecided /\ Unfiltered /\ req.page = 0 /\ Len(res.applications) < LIMIT =>
          \A i \in 1..Len(applications) :
              InScope(CallerSet, applications[i]) => applications[i]._id \in ListedIds

\* a Main Board caller is refused an application sent to Main Board alone
C1_Witness ==
    /\ GetDecided
    /\ CallerSet = {MAIN_BOARD_ID}
    /\ GetTarget.committees = <<MAIN_BOARD_ID>>
    /\ res.status = 403

\* ---------------------------------------------------------------- C2
NotMainBoard(ids) ==
    KeepIndices(ids, {i \in 1..Len(ids) : ids[i] # MAIN_BOARD_ID}, 1)

StoredById(id) == applications[CHOOSE i \in FindApplication(id) : TRUE]

\* the committee ids a response shows for an application, and the committee
\* of each status entry it shows
ShownCommittees(a) == [j \in 1..Len(a.committees) |-> a.committees[j]._id]
ShownOwnersById(a) == [j \in 1..Len(a.statuses) |-> a.statuses[j].committee._id]
ShownOwnersInList(a) == [j \in 1..Len(a.statuses) |-> a.statuses[j].committee]

\* in the store statuses[i] belongs to committees[i]
StoredAligned(a) ==
    /\ Len(a.statuses) = Len(a.committees)
    /\ \A i \in 1..Len(a.statuses) :
           /\ StatusExists(statuses, a.statuses[i])
           /\ statuses[StatusDoc(statuses, a.statuses[i])].committee = a.committees[i]

\* committees and owners are index-aligned, and the entries that are not
\* Main Board are the stored ones in their stored order
AlignedWith(shown, owners, stored) ==
    /\ Len(shown) = Len(owners)
    /\ \A j \in 1..Len(shown) : owners[j] = shown[j]
    /\ NotMainBoard(shown) = NotMainBoard(stored.committees)

C2_GetAligned ==
    GetDecided /\ res.status = 200 /\ ELECTION_COMMITTEE_ID \notin CallerSet
        /\ StoredAligned(GetTarget) =>
            AlignedWith(ShownCommittees(res.application),
                        ShownOwnersById(res.application), GetTarget)

C2_ListAligned ==
    ListDecided /\ ELECTION_COMMITTEE_ID \notin CallerSet =>
        \A k \in 1..Len(res.applications) :
            StoredAligned(StoredById(res.applications[k]._id)) =>
                AlignedWith(ShownCommittees(res.applications[k]),
                            ShownOwnersInList(res.applications[k]),
                            StoredById(res.applications[k]._id))

\* C2 as claimed: for a caller without Election Committee, the application
\* returned by get-by-id and by the list endpoint has committees and statuses
\* of equal length, statuses[j] belonging to committees[j], and the entries
\* that are not Main Board in their original relative order.
C2_AsClaimed == C2_GetAligned /\ C2_ListAligned

\* ---------------------------------------------------------------- C3
ShowsMainBoard(shown, owners) ==
    \/ \E j \in 1..Len(shown) : shown[j] = MAIN_BOARD_ID
    \/ \E j \in 1..Len(owners) : owners[j] = MAIN_BOARD_ID

\* C3 as claimed: without Election Committee in the caller's set no 200
\* response of get-by-id or of the list endpoint shows a committees or
\* statuses entry of Main Board, however often the application names it; with
\* Election Committee in the set the application comes back with no entry
\* removed.
C3_AsClaimed ==
    /\ GetDecided /\ res.status = 200 =>
          IF ELECTION_COMMITTEE_ID \in CallerSet
          THEN /\ ShownCommittees(res.application) = GetTarget.committees
               /\ Len(res.application.statuses) = Len(GetTarget.statuses)
          ELSE ~ShowsMainBoard(ShownCommittees(res.application),
                               ShownOwnersById(res.application))
    /\ ListDecided =>
          \A k \in 1..Len(res.applications) :
              IF ELECTION_COMMITTEE_ID \in CallerSet
              THEN /\ Len(res.applications[k].committees)
                          = Len(StoredById(res.applications[k]._id).committees)
                   /\ Len(res.applications[k].statuses)
                          = Len(StoredById(res.applications[k]._id).statuses)
              ELSE ~ShowsMainBoard(ShownCommittees(res.applications[k]),
                                   ShownOwnersInList(res.applications[k]))

\* ---------------------------------------------------------------- C4
\* The store in which the applications the caller can see were never sent
\* to Main Board: the Main Board entry and its status are gone, all else is
\* the same.
VisibleTo(U, a) == U \cap AddressedSet(a) # {}

MainBoardStatusIds(U) ==
    {a.statuses[i] : <<a, i>> \in
        {ai \in Range(applications) \X (1..(MaxLen + 1)) :
            /\ VisibleTo(U, ai[1])
            /\ ai[2] <= Len(ai[1].committees)
            /\ ai[2] <= Len(ai[1].statuses)
            /\ ai[1].committees[ai[2]] = MAIN_BOARD_ID}}

WithoutMainBoard(U, a) ==
    IF ~VisibleTo(U, a) THEN a
    ELSE LET keep == {i \in 1..Len(a.committees) : a.committees[i] # MAIN_BOARD_ID}
         IN  [a EXCEPT !.committees = KeepIndices(a.committees, keep, 1),
                       !.statuses = KeepIndices(a.statuses, keep, 1)]

OtherApplications(U) ==
    [i \in 1..Len(applications) |-> WithoutMainBoard(U, applications[i])]

OtherStatuses(U) ==
    KeepIndices(statuses,
        {i \in 1..Len(statuses) : statuses[i]._id \notin MainBoardStatusIds(U)}, 1)

OrdinaryCaller ==
    /\ UserDocs(req.ntnuiNo) # {}
    /\ ELECTION_COMMITTEE_ID \notin CallerSet
    /\ MAIN_BOARD_ID \notin CallerSet

\* C4 as claimed: an ordinary caller gets the same response to every list
\* request and every get-by-id request whether or not the applications it
\* can see were also sent to Main Board.
C4_AsClaimed ==
    /\ ListDecided /\ OrdinaryCaller =>
          res = getApplicationsOn(OtherApplications(CallerSet),
                                  OtherStatuses(CallerSet), req)
    /\ GetDecided /\ OrdinaryCaller =>
          res = getApplicationByIdOn(OtherApplications(CallerSet),
                                     OtherStatuses(CallerSet), req)

\* what still holds: the same, for requests with no committee and no status
\* filter
C4_Unfiltered ==
    /\ ListDecided /\ OrdinaryCaller /\ req.committee = <<>> /\ req.status = "" =>
          res = getApplicationsOn(OtherApplications(CallerSet),
                                  OtherStatuses(CallerSet), req)
    /\ GetDecided /\ OrdinaryCaller =>
          res = getApplicationByIdOn(OtherApplications(CallerSet),
                                     OtherStatuses(CallerSet), req)

\* ---------------------------------------------------------------- C5
\* the committee filter C and the status filter v of the request
Numeral(n) == CASE n = 1 -> "1" [] n = 2 -> "2" [] n = 7 -> "7" [] n = 9 -> "9"
FilterC == {n \in CommitteeIds : Includes(req.committee, Numeral(n))}

StatusEntries(a) ==
    {statuses[i] : i \in {k \in 1..Len(statuses) : Includes(a.statuses, statuses[k]._id)}}

FilterHolds(a) ==
    IF req.committee # <<>> /\ req.status # ""
    THEN \E s \in StatusEntries(a) : s.committee \in FilterC /\ s.value = req.status
    ELSE IF req.status # ""
    THEN \E s \in StatusEntries(a) : s.value = req.status
    ELSE IF req.committee # <<>>
    THEN AddressedSet(a) \cap FilterC # {}
    ELSE TRUE

\* C5: with a committee filter C and a status filter v an application
\* matches iff one of its status entries has its committee in C and the
\* value v; with only v, iff some entry has the value v; with only C, iff
\* its addressed committees meet C.  (Every listed application matches, and
\* a request without name filter and page that fills no page lists every
\* application in scope that matches.)
C5_Filter ==
    ListDecided =>
        /\ \A k \in 1..Len(res.applications) :
               FilterHolds(StoredById(res.applications[k]._id))
        /\ req.name = <<>> /\ req.page = 0 /\ Len(res.applications) < LIMIT =>
               \A i \in 1..Len(applications) :
                   InScope(CallerSet, applications[i]) /\ FilterHolds(applications[i])
                       => applications[i]._id \in ListedIds

\* statuses [{7, Pending}, {9, Accepted}] do not match C = {7}, v = Accepted
C5_Witness ==
    /\ ListDecided
    /\ ELECTION_COMMITTEE_ID \in CallerSet
    /\ req.committee = <<"7">> /\ req.status = ACCEPTED /\ req.name = <<>>
    /\ applications[1].committees = <<7, 9>>
    /\ statuses[1].value = PENDING /\ statuses[2].value = ACCEPTED
    /\ res.applications # <<>>
    /\ applications[1]._id \notin ListedIds

\* ---------------------------------------------------------------- C6
\* the applications that match the request, in pipeline order
MatchedIds ==
    LET docs == Pipeline(applications, statuses, req,
                         getUserCommitteeIdsByUserId(req.ntnuiNo, FALSE).committeeIds)
    IN  [i \in 1..Len(docs) |-> docs[i]._id]

Ceiling(n, d) == CHOOSE k \in 0..n : k * d >= n /\ (k = 0 \/ (k - 1) * d < n)

RequestedPage == IF req.page = 0 THEN 1 ELSE req.page

\* C6 as claimed: with N applications matching, page p holds the matches at
\* positions (p-1)*4 .. min(p*4, N)-1 (the first 4 when no page is given) and
\* numberOfPages is ceil(N/4), for every p.
C6_AsClaimed ==
    ListDecided =>
        /\ [k \in 1..Len(res.applications) |-> res.applications[k]._id]
              = SubSeq(MatchedIds, (RequestedPage - 1) * 4 + 1,
                       Min(RequestedPage * 4, Len(MatchedIds)))
        /\ res.pagination.numberOfPages = Ceiling(Len(MatchedIds), 4)

\* what still holds: the window is as claimed, and numberOfPages is
\* ceil(N/4) whenever the page is not empty
C6_Window ==
    ListDecided =>
        /\ [k \in 1..Len(res.applications) |-> res.applications[k]._id]
              = SubSeq(MatchedIds, (RequestedPage - 1) * 4 + 1,
                       Min(RequestedPage * 4, Len(MatchedIds)))
        /\ res.applications # <<>> =>
              res.pagination.numberOfPages = Ceiling(Len(MatchedIds), 4)

\* ---------------------------------------------------------------- C7
\* C7 as claimed: currentPage is the requested page, or 0 when none was
\* requested, whether or not the returned list is empty.
C7_AsClaimed == ListDecided => res.pagination.currentPage = req.page

\* C7 (amended): currentPage is the requested page, or 0 when none was
\* requested, when the returned list is not empty; it is 1 when the returned
\* list is empty.
C7_CurrentPage ==
    ListDecided =>
        res.pagination.currentPage = IF res.applications # <<>> THEN req.page ELSE 1

\* no page requested and nothing returned: currentPage is 1, not 0
C7_Witness ==
    /\ ListDecided
    /\ req.page = 0
    /\ res.applications = <<>>
    /\ res.pagination.currentPage = 1

\* ---------------------------------------------------------------- C8
\* a wipe request by an identified caller whose membership lookup works is
\* handled in this step
WipeStep ==
    /\ res = Idle
    /\ req'.op = "wipeAdmissionData"
    /\ req'.ntnuiNo # 0
    /\ req'.fault = "none"

\* the committee-id set of the caller of the wipe, before the wipe
WipeCallerSet ==
    {u.committees[i].committee : <<u, i>> \in
        {ui \in users \X (1..4) : ui[1]._id = req'.ntnuiNo /\ ui[2] <= Len(ui[1].committees)}}

\* C8: without Main Board in the caller's set (an Election-Committee-only
\* caller and a caller with no user record included) wipe answers 403 and
\* leaves the five collections unchanged; with Main Board in it and every
\* store operation succeeding, Applications, Statuses and AdmissionPeriods
\* end empty, Users holds exactly the caller's record, and every Committee has
\* accepts_admissions = false.
C8_Wipe ==
    [][WipeStep =>
          IF MAIN_BOARD_ID \notin WipeCallerSet
          THEN /\ res'.status = 403
               /\ UNCHANGED store
          ELSE req'.failsAt = 0 =>
               /\ res'.status = 200
               /\ applications' = <<>>
               /\ statuses' = <<>>
               /\ admissionPeriods' = {}
               /\ users' = {u \in users : u._id = req'.ntnuiNo}
               /\ Cardinality(users') = 1
               /\ Len(committees') = Len(committees)
               /\ \A i \in 1..Len(committees') :
                      /\ committees'[i]._id = committees[i]._id
                      /\ committees'[i].accepts_admissions = FALSE]_vars

\* a Main Board member has wiped a store that held submissions
C8_Witness ==
    /\ req.op = "wipeAdmissionData"
    /\ res.status = 200
    /\ posts > 0
    /\ applications = <<>> /\ statuses = <<>>
    /\ Cardinality(users) = 1

\* ---------------------------------------------------------------- C9
PostStep == res = Idle /\ req'.op = "postApplication"

PeriodActive == \E p \in admissionPeriods : p.active

AddressedClosed ==
    \E i \in 1..Len(committees) :
        /\ committees[i]._id \in Range(req'.body.committees)
        /\ committees[i].accepts_admissions = FALSE

\* C9: a submission with no active period answers 403 and creates no Status
\* and no Application; one (in an active period) addressed to a closed
\* committee answers 400 and creates neither; if the status bulk-insert fails
\* no Application is created; an Application is created only after all
\* three have passed, and its Status records are in the store, created before
\* it.
C9_Submission ==
    [][PostStep =>
          /\ ~PeriodActive =>
                /\ res'.status = 403
                /\ applications' = applications /\ statuses' = statuses
          /\ PeriodActive /\ AddressedClosed =>
                /\ res'.status = 400
                /\ applications' = applications /\ statuses' = statuses
          /\ req'.fault = "insertStatuses" => applications' = applications
          /\ applications' # applications =>
                /\ PeriodActive /\ ~AddressedClosed /\ req'.fault = "none"
                /\ res'.status = 200
                /\ Len(applications') = Len(applications) + 1
                /\ SubSeq(applications', 1, Len(applications)) = applications
                /\ LET new == applications'[Len(applications')]
                   IN  /\ new.committees = req'.body.committees
                       /\ Len(new.statuses) = Len(new.committees)
                       /\ \A i \in 1..Len(new.statuses) :
                              /\ \E k \in 1..Len(statuses') :
                                     statuses'[k]._id = new.statuses[i]
                              /\ new.statuses[i] < new._id]_vars

\* a submission to two committees went through
C9_Witness ==
    /\ req.op = "postApplication"
    /\ res.status = 200
    /\ Len(req.body.committees) = 2
    /\ applications # <<>>
    /\ applications[Len(applications)]._id = res.application._id

\* --------------------------------------------------------------- C10
\* C10 as claimed: get-by-id and list called with the id of a user that has
\* no record end in NotFound (404) instead of going on with an empty
\* committee set, and in Internal (500) when the lookup fails.
C10_AsClaimed ==
    /\ req.op \in {"getApplicationById", "getApplications"}
          /\ req.ntnuiNo # 0 /\ req.fault = "none" /\ UserDocs(req.ntnuiNo) = {}
          => res.status = 404
    /\ req.op \in {"getApplicationById", "getApplications"}
          /\ req.ntnuiNo # 0 /\ req.fault = "userLookup"
          => res.status = 500

\* what holds of the lookup failure alone
C10_LookupFailure ==
    req.op \in {"getApplicationById", "getApplications"}
        /\ req.ntnuiNo # 0 /\ req.fault = "userLookup"
        => res.status = 500

\* --------------------------------------------------------------- C11
\* every stored application has one status reference per addressed
\* committee, the i-th owned by the i-th committee, each in the store
ApplicationsConsistent ==
    \A k \in 1..Len(applications) :
        LET a == applications[k]
        IN  /\ Len(a.statuses) = Len(a.committees)
            /\ \A i \in 1..Len(a.statuses) :
                   \E n \in 1..Len(statuses) :
                       /\ statuses[n]._id = a.statuses[i]
                       /\ statuses[n].committee = a.committees[i]

\* the statuses a step adds to the store
CreatedStatuses ==
    {statuses'[n] : n \in {m \in 1..Len(statuses') :
        \A j \in 1..Len(statuses) : statuses[j]._id # statuses'[m]._id}}

\* C11: in every state reached by submissions and wipes, every stored
\* Application has as many status references as addressed committees, its
\* i-th status is owned by its i-th addressed committee and every referenced
\* Status is in the store; and every Status a submission creates has the
\* value Pending.
C11_Consistent ==
    /\ []ApplicationsConsistent
    /\ [][PostStep => \A st \in CreatedStatuses : st.value = PENDING]_vars

\* two submissions are stored, the second to committees 9 and 7
C11_Witness ==
    /\ Len(applications) = 2
    /\ applications[2].committees = <<9, 7>>
    /\ Len(statuses) > 2
    /\ posts = 2

\* --------------------------------------------------------------- C12
\* the list request without filters and sort key that the caller of the
\* get-by-id request could send for page p
UnfilteredList(p) ==
    [op |-> "getApplications", ntnuiNo |-> req.ntnuiNo, page |-> p, name |-> <<>>,
     committee |-> <<>>, status |-> "", sort |-> "", fault |-> "none"]

\* what the pages of that list show for the application with this id
ListEntriesFor(id) ==
    UNION {LET listed == getApplicationsOn(applications, statuses,
                                           UnfilteredList(p)).applications
           IN  {listed[k] : k \in {n \in 1..Len(listed) : listed[n]._id = id}} :
           p \in 1..Len(applications)}

\* C12 as claimed: for every caller set U and stored application A (an
\* empty committee list and a repeated Main Board included), A is in the
\* unfiltered list of U iff get-by-id of A by U answers 200, and then both
\* responses show the same committee ids for A.
C12_AsClaimed ==
    GetDecided =>
        /\ ListEntriesFor(req.application_id) # {} <=> res.status = 200
        /\ res.status = 200 =>
              \A e \in ListEntriesFor(req.application_id) :
                  ShownCommittees(e) = ShownCommittees(res.application)

\* what still holds: the two endpoints agree on visibility for every
\* application with a non-empty committee list, and on the set of committee
\* ids shown unless the caller is a Main Board member without Election
\* Committee and the list names Main Board more than once
C12_Agreement ==
    GetDecided =>
        /\ GetTarget.committees # <<>> =>
              (ListEntriesFor(req.application_id) # {} <=> res.status = 200)
        /\ res.status = 200
              /\ ~(/\ MAIN_BOARD_ID \in CallerSet
                   /\ ELECTION_COMMITTEE_ID \notin CallerSet
                   /\ Cardinality({i \in 1..Len(GetTarget.committees) :
                          GetTarget.committees[i] = MAIN_BOARD_ID}) > 1) =>
              \A e \in ListEntriesFor(req.application_id) :
                  Range(ShownCommittees(e)) = Range(ShownCommittees(res.application))

====
